---- MODULE Spec2Model ----
(***************************************************************************)
(* A model of the DBZ Sagas portrait extractor (src/src/main.rs): the      *)
(* header decoder, the colour look-up table decoder with its alpha remap   *)
(* and swizzle, the pixel-plane decoder and the compositing loop of main.  *)
(*                                                                         *)
(* Stream positions are 0-based as in the code; TLA+ sequences are 1-based,*)
(* so the byte at position p of stream s is s[p + 1], and the element i of *)
(* a Vec v is v[i + 1].                                                    *)
(***************************************************************************)
EXTENDS Integers, Sequences, FiniteSets, TLC

(***************************************************************************)
(* Bounds of the model (inputs that are enumerated).                       *)
(***************************************************************************)
\* longest embedded path string (bytes before the terminator)
MaxStr == 1
\* largest small width / height; the pair (WideDim, WideDim) is added to them
MaxDim == 2
\* number of palette / pixel-plane contents besides the end-to-end example (0)
MaxContent == 1
\* palettes of the swizzle specification: entry k is built from k * m + c
MaxMul == 5
MaxAdd == 5

(***************************************************************************)
(* Constants of the program.                                               *)
(***************************************************************************)
\* let num_colors = 256
NumColors == 256
\* step_by(32): the block size of the swizzle
BlockSize == 32
\* (8..16).zip(16..24)
SwzFrom == 8
SwzTo == 16
SwzLen == 8
\* the four u8 of a SagasColor
ColorBytes == 4
\* values of a u8: "as u8" truncates modulo this
U8 == 256
\* values of a u16: width * height is a u16 product
U16 == 65536
\* the smallest dimension whose square overflows a u16
WideDim == U16 \div U8

VARIABLES
    stream,     \* the bytes of the input file
    seekable,   \* whether the underlying file honours seek (a regular file) or not (a pipe)
    build,      \* "debug" (overflow checks on) or "release" (wrapping arithmetic)
    inp,        \* the description the input stream was built from
    pos,        \* the reader's position
    pc,         \* where main is
    header,     \* SagasHeader, once decoded
    colors,     \* SagasColorLUT.colors
    image,      \* SagasFile.image
    rgba,       \* the pixels put into rgba_image so far, in buffer order
    x, y,       \* the loop variables of main's compositing loop
    seekErrs,   \* the Err results of seek that were dropped
    result,     \* "running", "Err" (from_reader returned Err(UnexpectedEof)),
                \* "panic" (an unwrap, an overflow check or an index check aborted), "saved"
    saved       \* whether rgba_image was handed to save

vars == <<stream, seekable, build, inp, pos, pc, header, colors, image, rgba,
          x, y, seekErrs, result, saved>>

Min(S) == CHOOSE m \in S : \A n \in S : m <= n

(***************************************************************************)
(* The reader: byteorder's read_uN::<LittleEndian> and BufRead::read_until.*)
(***************************************************************************)
\* read_exact succeeds iff n bytes remain at pos
Avail(s, p, n) == p + n <= Len(s)

RECURSIVE ReadLE(_, _, _)
\* the little-endian value of the n bytes at position p
ReadLE(s, p, n) ==
    IF n = 0 THEN 0 ELSE s[p + 1] + U8 * ReadLE(s, p + 1, n - 1)

\* read_until that stops in front of the delimiter instead of consuming it
ReadUntilLeavesDelim(s, p, delim) ==
    LET hits == {q \in p .. Len(s) - 1 : s[q + 1] = delim}
    IN  IF hits = {}
        THEN [buf |-> SubSeq(s, p + 1, Len(s)), pos |-> IF p > Len(s) THEN p ELSE Len(s)]
        ELSE [buf |-> SubSeq(s, p + 1, Min(hits)), pos |-> Min(hits)]

\* read_until(delim): appends bytes up to and including the first delim, or,
\* when there is none, every byte up to the end of the stream; never an error
\* at end of stream.
ReadUntil(s, p, delim) ==
    LET hits == {q \in p .. Len(s) - 1 : s[q + 1] = delim}
    IN  IF hits = {}
        THEN [buf |-> SubSeq(s, p + 1, Len(s)), pos |-> IF p > Len(s) THEN p ELSE Len(s)]
        ELSE [buf |-> SubSeq(s, p + 1, Min(hits) + 1), pos |-> Min(hits) + 1]

\* Vec::pop: drops the last element, if any
Pop(buf) == IF buf = <<>> THEN buf ELSE SubSeq(buf, 1, Len(buf) - 1)

\* CString::from_reader
CStringFromReader(s, p) ==
    LET r == ReadUntil(s, p, 0)
    IN  [val |-> Pop(r.buf), pos |-> r.pos]

(***************************************************************************)
(* SagasHeader::from_reader: the fields in the order they are read; w is   *)
(* the width in bytes of a fixed field and 0 for a null-terminated string. *)
(***************************************************************************)
Fields ==
    << [name |-> "unk0", w |-> 8],
       [name |-> "unk1", w |-> 4],
       [name |-> "unk2", w |-> 4],
       [name |-> "unk3", w |-> 4],
       [name |-> "unk4", w |-> 4],
       [name |-> "string0", w |-> 0],
       [name |-> "unk5", w |-> 4],
       [name |-> "unk6", w |-> 4],
       [name |-> "unk7", w |-> 4],
       [name |-> "image_offset", w |-> 4],
       [name |-> "width", w |-> 2],
       [name |-> "height", w |-> 2],
       [name |-> "unk9", w |-> 4],
       [name |-> "unk10", w |-> 4],
       [name |-> "color_table_offset", w |-> 4],
       [name |-> "unk12", w |-> 2],
       [name |-> "unk13", w |-> 2],
       [name |-> "unk14", w |-> 4],
       [name |-> "string1", w |-> 0] >>

NoHeader == [n \in {} |-> 0]

RECURSIVE ReadFields(_, _, _)
\* reads field i and the ones after it; a fixed-width read with too few bytes
\* left returns Err(UnexpectedEof) through the ? operator, and the struct is
\* built only when every read succeeded
ReadFields(s, p, i) ==
    IF i > Len(Fields)
    THEN [ok |-> TRUE, hdr |-> NoHeader, pos |-> p]
    ELSE LET f == Fields[i]
         IN  IF f.w = 0
             THEN LET c == CStringFromReader(s, p)
                      rest == ReadFields(s, c.pos, i + 1)
                  IN  IF rest.ok
                      THEN [rest EXCEPT !.hdr = (f.name :> c.val) @@ rest.hdr]
                      ELSE rest
             ELSE IF ~Avail(s, p, f.w)
                  THEN [ok |-> FALSE, hdr |-> NoHeader, pos |-> p]
                  ELSE LET rest == ReadFields(s, p + f.w, i + 1)
                       IN  IF rest.ok
                           THEN [rest EXCEPT !.hdr = (f.name :> ReadLE(s, p, f.w)) @@ rest.hdr]
                           ELSE rest

HeaderFromReader(s, p) == ReadFields(s, p, 1)

(***************************************************************************)
(* SagasColor::from_reader and SagasColorLUT::from_reader.                 *)
(***************************************************************************)
\* the remap without its test for the transparent sentinel
AlphaRemapNoSentinel(a) == (((a * 2) % U16) - 1) % U8

\* (((a as u16) << 1) - 1) as u8 for a # 0: the shift is done in 16 bits, the
\* subtraction cannot underflow since a << 1 >= 2, and "as u8" truncates
AlphaRemap(a) ==
    IF a # 0 THEN ((((a * 2) % U16) - 1) % U8) ELSE a

SagasColorFromReader(s, p) ==
    IF ~Avail(s, p, ColorBytes)
    THEN [ok |-> FALSE, c |-> [r |-> 0, g |-> 0, b |-> 0, a |-> 0]]
    ELSE [ok |-> TRUE,
          c  |-> [r |-> s[p + 1], g |-> s[p + 2], b |-> s[p + 3],
                  a |-> AlphaRemap(s[p + 4])]]

\* what is left of a Vec once an index check has aborted the run
Panicked == <<>>

\* Vec::swap(a, b), indices 0-based; an index that is out of bounds panics
Swap(v, a, b) ==
    IF a >= Len(v) \/ b >= Len(v) THEN Panicked
    ELSE [v EXCEPT ![a + 1] = v[b + 1], ![b + 1] = v[a + 1]]

RECURSIVE SwapBlockOverlap(_, _, _)
\* the inner loop with its second range one entry after the first:
\* (8..16).zip(9..17)
SwapBlockOverlap(v, i, k) ==
    IF k >= SwzLen \/ v = Panicked THEN v
    ELSE SwapBlockOverlap(Swap(v, i + SwzFrom + k, i + SwzFrom + 1 + k), i, k + 1)

RECURSIVE SwapBlock(_, _, _)
\* the inner loop, from its iteration k on:
\* for (from, to) in (8..16).zip(16..24) { colors.swap(i + from, i + to) }
SwapBlock(v, i, k) ==
    IF k >= SwzLen \/ v = Panicked THEN v
    ELSE SwapBlock(Swap(v, i + SwzFrom + k, i + SwzTo + k), i, k + 1)

RECURSIVE SwizzleFromSkipping(_, _)
\* the outer loop stepping by two blocks
SwizzleFromSkipping(v, i) ==
    IF i >= NumColors \/ v = Panicked THEN v
    ELSE SwizzleFromSkipping(SwapBlock(v, i, 0), i + 2 * BlockSize)

RECURSIVE SwizzleFrom(_, _)
\* the outer loop, from the block at i on: for i in (0..num_colors).step_by(32)
SwizzleFrom(v, i) ==
    IF i >= NumColors \/ v = Panicked THEN v
    ELSE SwizzleFrom(SwapBlock(v, i, 0), i + BlockSize)

\* the "Swizzle table" loops
Swizzle(v) == SwizzleFrom(v, 0)

\* 256 times SagasColor::from_reader(r).unwrap(), then the swizzle
LUTFromReader(s, p) ==
    LET rd == [k \in 1 .. NumColors |-> SagasColorFromReader(s, p + ColorBytes * (k - 1))]
        sw == Swizzle([k \in 1 .. NumColors |-> rd[k].c])
    IN  IF (\E k \in 1 .. NumColors : ~rd[k].ok) \/ sw = Panicked
        THEN [panic |-> TRUE, colors |-> <<>>, pos |-> p]
        ELSE [panic |-> FALSE, colors |-> sw, pos |-> p + ColorBytes * NumColors]

(***************************************************************************)
(* The pixel plane of SagasFile::from_reader.                              *)
(***************************************************************************)
\* header.width * header.height, a u16 product: an overflow panics in a build
\* with overflow checks and wraps in one without
PixelCount(w, h, bld) ==
    IF w * h >= U16 /\ bld = "debug"
    THEN [panic |-> TRUE, n |-> 0]
    ELSE [panic |-> FALSE, n |-> (w * h) % U16]

ImageFromReader(s, p, w, h, bld) ==
    LET cnt == PixelCount(w, h, bld)
    IN  IF cnt.panic \/ (cnt.n > 0 /\ ~Avail(s, p, cnt.n))
        THEN [panic |-> TRUE, image |-> <<>>, pos |-> p]
        ELSE [panic |-> FALSE, image |-> SubSeq(s, p + 1, p + cnt.n), pos |-> p + cnt.n]

\* Seek::seek(SeekFrom::Start(off)): a stream that cannot seek returns Err and
\* keeps its position; the caller drops the Result
SeekStart(p, off, canSeek) ==
    IF canSeek THEN [err |-> FALSE, pos |-> off] ELSE [err |-> TRUE, pos |-> p]

(***************************************************************************)
(* The input streams that are enumerated.                                  *)
(***************************************************************************)
RECURSIVE LEBytes(_, _)
LEBytes(v, n) == IF n = 0 THEN <<>> ELSE <<v % U8>> \o LEBytes(v \div U8, n - 1)

\* a path string of n non-zero bytes
PathBytes(n, first) == [i \in 1 .. n |-> first + i]

HeaderLen(n0, n1) == 64 + n0 + 1 + n1 + 1

\* unk0 .. unk4 and string0
HeaderHead(n0) ==
    (LEBytes(7, 8) \o LEBytes(1, 4) \o LEBytes(2, 4))
    \o (LEBytes(3, 4) \o LEBytes(4, 4))
    \o (PathBytes(n0, 64) \o <<0>>)

\* unk5 .. height
HeaderMiddle(w, h, imgOff) ==
    (LEBytes(5, 4) \o LEBytes(6, 4) \o LEBytes(7, 4))
    \o (LEBytes(imgOff, 4) \o LEBytes(w, 2) \o LEBytes(h, 2))

\* unk9 .. string1
HeaderTail(n1, palOff) ==
    (LEBytes(9, 4) \o LEBytes(10, 4) \o LEBytes(palOff, 4))
    \o (LEBytes(12, 2) \o LEBytes(13, 2) \o LEBytes(14, 4))
    \o (PathBytes(n1, 96) \o <<0>>)

HeaderBytes(n0, n1, w, h, imgOff, palOff) ==
    HeaderHead(n0) \o HeaderMiddle(w, h, imgOff) \o HeaderTail(n1, palOff)

\* the stored (pre-remap, pre-swizzle) palette entry k of content c; content 0
\* is the palette of the end-to-end example
StoredColor(c, k) ==
    IF c = 0
    THEN CASE k = 0 -> <<10, 20, 30, 0>>
           [] k = 1 -> <<40, 50, 60, 128>>
           [] k = 2 -> <<70, 80, 90, 64>>
           [] k = 3 -> <<100, 110, 120, 255>>
           [] OTHER -> <<k, k, k, k>>
    ELSE <<k, (U8 - 1) - k, (3 * k + c) % U8, (k + c - 1) % U8>>

PaletteBytes(c) ==
    [i \in 1 .. ColorBytes * NumColors |->
        StoredColor(c, (i - 1) \div ColorBytes)[((i - 1) % ColorBytes) + 1]]

\* pixel-plane byte i of content c; content 0 is the plane 0, 1, 2, 3, ...
PlaneByte(c, i) == IF c = 0 THEN i % U8 ELSE (8 * i + 5 * (c - 1)) % U8

\* the plane bytes present in the file: all of them for the small images, no
\* more than a row for the wide one
PlaneLen(w, h) == IF w * h >= U16 THEN w ELSE w * h

PlaneBytes(c, w, h) == [i \in 1 .. PlaneLen(w, h) |-> PlaneByte(c, i - 1)]

Layouts == {"pal_img", "img_pal"}

PalOffset(d) ==
    IF d.layout = "pal_img" THEN HeaderLen(d.n0, d.n1)
    ELSE HeaderLen(d.n0, d.n1) + PlaneLen(d.w, d.h)

ImgOffset(d) ==
    IF d.layout = "pal_img" THEN HeaderLen(d.n0, d.n1) + ColorBytes * NumColors
    ELSE HeaderLen(d.n0, d.n1)

FullStream(d) ==
    HeaderBytes(d.n0, d.n1, d.w, d.h, ImgOffset(d), PalOffset(d))
    \o (IF d.layout = "pal_img"
        THEN PaletteBytes(d.content) \o PlaneBytes(d.content, d.w, d.h)
        ELSE PlaneBytes(d.content, d.w, d.h) \o PaletteBytes(d.content))

Cuts == {"full", "in_fixed", "in_string0", "in_string1", "after_header",
         "in_palette", "palette_last", "plane_last"}

\* the length the file is truncated to
CutLen(d) ==
    LET H == HeaderLen(d.n0, d.n1)
        full == H + ColorBytes * NumColors + PlaneLen(d.w, d.h)
    IN  CASE d.cut = "full" -> full
          [] d.cut = "in_fixed" -> 10
          [] d.cut = "in_string0" -> 24 + d.n0
          [] d.cut = "in_string1" -> H - 1
          [] d.cut = "after_header" -> H
          [] d.cut = "in_palette" -> PalOffset(d) + 2 * NumColors
          [] d.cut = "palette_last" -> PalOffset(d) + ColorBytes * NumColors - 1
          [] d.cut = "plane_last" ->
                IF PlaneLen(d.w, d.h) = 0 THEN full
                ELSE ImgOffset(d) + PlaneLen(d.w, d.h) - 1

StreamOf(d) ==
    LET full == FullStream(d)
        n == CutLen(d)
    IN  SubSeq(full, 1, IF n < Len(full) THEN n ELSE Len(full))

DimPairs == ((0 .. MaxDim) \X (0 .. MaxDim)) \cup {<<WideDim, WideDim>>}

Inputs ==
    {[n0 |-> n0, n1 |-> n1, w |-> wh[1], h |-> wh[2], layout |-> l, cut |-> c,
      content |-> ct] :
        n0 \in 0 .. MaxStr, n1 \in 0 .. MaxStr, wh \in DimPairs, l \in Layouts,
        c \in Cuts, ct \in 0 .. MaxContent}

(***************************************************************************)
(* main, after the command line is parsed and the file is opened.          *)
(***************************************************************************)
Init ==
    /\ inp \in Inputs
    /\ stream = StreamOf(inp)
    /\ seekable \in BOOLEAN
    /\ build \in {"debug", "release"}
    /\ pos = 0
    /\ pc = "header"
    /\ header = NoHeader
    /\ colors = <<>>
    /\ image = <<>>
    /\ rgba = <<>>
    /\ x = 0
    /\ y = 0
    /\ seekErrs = 0
    /\ result = "running"
    /\ saved = FALSE

\* let header = SagasHeader::from_reader(r)?; on Err main's "if let Ok" is
\* skipped and main returns
ReadHeader ==
    /\ pc = "header"
    /\ LET r == HeaderFromReader(stream, pos)
       IN  IF r.ok
           THEN /\ header' = r.hdr
                /\ pos' = r.pos
                /\ pc' = "seek_lut"
                /\ result' = result
           ELSE /\ header' = header
                /\ pos' = pos
                /\ pc' = "done"
                /\ result' = "Err"
    /\ UNCHANGED <<stream, seekable, build, inp, colors, image, rgba, x, y,
                   seekErrs, saved>>

\* r.seek(SeekFrom::Start(header.color_table_offset as _)); the Result is dropped
SeekLUT ==
    /\ pc = "seek_lut"
    /\ LET r == SeekStart(pos, header["color_table_offset"], seekable)
       IN  /\ pos' = r.pos
           /\ seekErrs' = IF r.err THEN seekErrs + 1 ELSE seekErrs
    /\ pc' = "lut"
    /\ UNCHANGED <<stream, seekable, build, inp, header, colors, image, rgba,
                   x, y, result, saved>>

\* let lut = SagasColorLUT::from_reader(r)?
ReadLUT ==
    /\ pc = "lut"
    /\ LET r == LUTFromReader(stream, pos)
       IN  IF r.panic
           THEN /\ pc' = "done"
                /\ result' = "panic"
                /\ UNCHANGED <<colors, pos>>
           ELSE /\ colors' = r.colors
                /\ pos' = r.pos
                /\ pc' = "seek_image"
                /\ result' = result
    /\ UNCHANGED <<stream, seekable, build, inp, header, image, rgba, x, y,
                   seekErrs, saved>>

\* r.seek(SeekFrom::Start(header.image_offset as _)); the Result is dropped
SeekImage ==
    /\ pc = "seek_image"
    /\ LET r == SeekStart(pos, header["image_offset"], seekable)
       IN  /\ pos' = r.pos
           /\ seekErrs' = IF r.err THEN seekErrs + 1 ELSE seekErrs
    /\ pc' = "image"
    /\ UNCHANGED <<stream, seekable, build, inp, header, colors, image, rgba,
                   x, y, result, saved>>

\* the loop pushing r.read_u8().unwrap(), and Ok(SagasFile { .. })
ReadImage ==
    /\ pc = "image"
    /\ LET r == ImageFromReader(stream, pos, header["width"], header["height"], build)
       IN  IF r.panic
           THEN /\ pc' = "done"
                /\ result' = "panic"
                /\ UNCHANGED <<image, pos>>
           ELSE /\ image' = r.image
                /\ pos' = r.pos
                /\ pc' = "new_image"
                /\ result' = result
    /\ UNCHANGED <<stream, seekable, build, inp, header, colors, rgba, x, y,
                   seekErrs, saved>>

\* RgbaImage::new(width, height) and the entry of the loops
NewImage ==
    /\ pc = "new_image"
    /\ rgba' = <<>>
    /\ x' = 0
    /\ y' = 0
    /\ pc' = IF header["width"] = 0 \/ header["height"] = 0 THEN "save" ELSE "composite"
    /\ UNCHANGED <<stream, seekable, build, inp, pos, header, colors, image,
                   seekErrs, result, saved>>

\* one iteration of the inner loop: image[x + y * width], colors[i], put_pixel
PutPixel ==
    /\ pc = "composite"
    /\ LET w == header["width"]
           h == header["height"]
           idx == x + y * w
       IN  IF idx >= Len(image)
           THEN /\ pc' = "done"
                /\ result' = "panic"
                /\ UNCHANGED <<rgba, x, y>>
           ELSE LET i == image[idx + 1]
                    c == colors[i + 1]
                IN  /\ rgba' = Append(rgba, c)
                    /\ x' = IF x + 1 < w THEN x + 1 ELSE 0
                    /\ y' = IF x + 1 < w THEN y ELSE y + 1
                    /\ pc' = IF x + 1 >= w /\ y + 1 >= h THEN "save" ELSE "composite"
                    /\ result' = result
    /\ UNCHANGED <<stream, seekable, build, inp, pos, header, colors, image,
                   seekErrs, saved>>

\* rgba_image.save(..)
Save ==
    /\ pc = "save"
    /\ saved' = TRUE
    /\ result' = "saved"
    /\ pc' = "done"
    /\ UNCHANGED <<stream, seekable, build, inp, pos, header, colors, image,
                   rgba, x, y, seekErrs>>

Next ==
    \/ ReadHeader
    \/ SeekLUT
    \/ ReadLUT
    \/ SeekImage
    \/ ReadImage
    \/ NewImage
    \/ PutPixel
    \/ Save

Spec == Init /\ [][Next]_vars

(***************************************************************************)
(* The swizzle taken alone: it is applied to an enumerated palette, and    *)
(* once more to what it returned.                                          *)
(***************************************************************************)
\* entry k of the palette built from the multiplier m and the offset c
PaletteOf(m, c) ==
    [k \in 1 .. NumColors |->
        [r |-> (m * (k - 1) + c) % U8, g |-> (k - 1) % BlockSize,
         b |-> c, a |-> AlphaRemap(((k - 1) * m) % U8)]]

InitSwizzle ==
    /\ \E m \in 0 .. MaxMul, c \in 0 .. MaxAdd :
          /\ inp = [mul |-> m, add |-> c, palette |-> PaletteOf(m, c)]
          /\ colors = PaletteOf(m, c)
    /\ stream = <<>>
    /\ seekable = TRUE
    /\ build = "release"
    /\ pos = 0
    /\ pc = "swizzle0"
    /\ header = NoHeader
    /\ image = <<>>
    /\ rgba = <<>>
    /\ x = 0
    /\ y = 0
    /\ seekErrs = 0
    /\ result = "running"
    /\ saved = FALSE

SwizzleOnce ==
    /\ pc = "swizzle0"
    /\ colors' = Swizzle(colors)
    /\ pc' = "swizzle1"
    /\ UNCHANGED <<stream, seekable, build, inp, pos, header, image, rgba, x, y,
                   seekErrs, result, saved>>

SwizzleAgain ==
    /\ pc = "swizzle1"
    /\ colors' = Swizzle(colors)
    /\ pc' = "swizzle2"
    /\ UNCHANGED <<stream, seekable, build, inp, pos, header, image, rgba, x, y,
                   seekErrs, result, saved>>

NextSwizzle == SwizzleOnce \/ SwizzleAgain

SpecSwizzle == InitSwizzle /\ [][NextSwizzle]_vars

(***************************************************************************)
(* What the claims are stated with.                                        *)
(***************************************************************************)
\* the header was decoded: from_reader got past SagasHeader::from_reader
HeaderOk == header # NoHeader

\* the palette was decoded
LUTOk == colors # <<>>

\* SagasFile::from_reader returned Ok
DecodeOk == pc \in {"new_image", "composite", "save"} \/ saved

\* the end of the header in the file as it was written
TrueHeaderLen == HeaderLen(inp.n0, inp.n1)

\* where the palette was read from: the offset sought, or, when the stream
\* cannot seek, where the header ended
LUTPos == IF seekable THEN header["color_table_offset"] ELSE TrueHeaderLen

\* the stored entry k at the place the palette was read from
StoredAt(k) ==
    LET p == LUTPos + ColorBytes * k
    IN  [r |-> stream[p + 1], g |-> stream[p + 2], b |-> stream[p + 3],
         a |-> stream[p + 4]]

\* the remap of the specification
SpecRemap(a) == IF a = 0 THEN 0 ELSE (2 * a - 1) % 256

\* the stored entry with its alpha remapped
RemappedAt(k) == [StoredAt(k) EXCEPT !.a = SpecRemap(StoredAt(k).a)]

\* the index an entry of the final palette was read at
SourceIndex(d) ==
    LET j == d % 32
    IN  IF j \in 8 .. 15 THEN d + 8
        ELSE IF j \in 16 .. 23 THEN d - 8
        ELSE d

\* the file ends before the palette or the pixel plane the header announces
Truncated ==
    \/ Len(stream) < header["color_table_offset"] + 1024
    \/ Len(stream) < header["image_offset"] + header["width"] * header["height"]

(***************************************************************************)
(* The claims.                                                             *)
(***************************************************************************)

\* C1: when the file holds its whole header and the header decodes, every
\* seek is honoured and the file ends before the 1024 palette bytes at
\* color_table_offset or before the width * height plane bytes at
\* image_offset, SagasFile::from_reader has returned Err(UnexpectedEof) to
\* main once it is over, and no image exists.
C1_TruncatedDecodeReturnsEof ==
    (/\ HeaderOk
     /\ Len(stream) >= TrueHeaderLen
     /\ seekErrs = 0
     /\ Truncated
     /\ pc \notin {"seek_lut", "lut", "seek_image", "image"})
        => (result = "Err" /\ rgba = <<>> /\ ~saved)

\* C2: once SagasFile::from_reader has returned Ok, the pixel plane holds
\* exactly width * height bytes, the product taken over the integers.
C2_PlaneLenIsProduct ==
    (DecodeOk /\ seekErrs = 0) => Len(image) = header["width"] * header["height"]

\* C3: a file that ends before the end of its header (inside a fixed field or
\* inside either string, its terminator included) never yields a header: the
\* decode has failed with Err(UnexpectedEof).
C3_TruncatedHeaderIsEof ==
    (pc # "header" /\ Len(stream) < TrueHeaderLen)
        => (~HeaderOk /\ result = "Err")

\* the first zero byte at or after position p
FirstZero(p) == Min({q \in p .. Len(stream) - 1 : stream[q + 1] = 0})

HasZero(p) == \E q \in p .. Len(stream) - 1 : stream[q + 1] = 0

\* the position of string0: after unk0 .. unk4
String0Pos == 8 + 4 * 4

\* C4: a string read at p with the first zero byte at q >= p returns the bytes
\* p .. q - 1 and leaves the position at q + 1: string0 is the path that was
\* written, the fixed fields after it are read from the bytes right after its
\* terminator, and the same holds of string1, after which the reader stands
\* at the end of the header.
C4_CStringReadInPlace ==
    HeaderOk =>
        /\ HasZero(String0Pos)
        /\ header["string0"] = SubSeq(stream, String0Pos + 1, FirstZero(String0Pos))
        /\ header["string0"] = PathBytes(inp.n0, 64)
        /\ header["unk5"] = ReadLE(stream, FirstZero(String0Pos) + 1, 4)
        /\ header["unk5"] = 5 /\ header["unk6"] = 6 /\ header["unk7"] = 7
        /\ header["image_offset"] = ImgOffset(inp)
        /\ header["width"] = inp.w /\ header["height"] = inp.h
        /\ header["unk9"] = 9 /\ header["unk10"] = 10
        /\ header["color_table_offset"] = PalOffset(inp)
        /\ header["unk12"] = 12 /\ header["unk13"] = 13 /\ header["unk14"] = 14
        /\ LET p1 == FirstZero(String0Pos) + 41
           IN  HasZero(p1) =>
                   /\ header["string1"] = SubSeq(stream, p1 + 1, FirstZero(p1))
                   /\ header["string1"] = PathBytes(inp.n1, 96)
                   /\ pc = "seek_lut" => pos = FirstZero(p1) + 1

\* a header decoded from a file whose two strings are not empty
C4_Witness ==
    /\ pc = "seek_lut"
    /\ inp.n0 = 1 /\ inp.n1 = 1
    /\ header["string0"] = <<65>>
    /\ header["string1"] = <<97>>
    /\ header["width"] = 2
    /\ pos = 68

\* C5: every stored alpha byte a decodes to 0 when a = 0 and to
\* (2a - 1) mod 256 otherwise, so 0 -> 0, 1 -> 1, 128 -> 255, 255 -> 253, and
\* the r, g and b bytes are the stored ones.
C5_AlphaRemap ==
    LUTOk =>
        \A k \in 0 .. 255 :
            LET st == StoredAt(k)
                e == colors[SourceIndex(k) + 1]
            IN  /\ e.r = st.r /\ e.g = st.g /\ e.b = st.b
                /\ e.a = (IF st.a = 0 THEN 0 ELSE (2 * st.a - 1) % 256)
                /\ e.a \in 0 .. 255
                /\ st.a = 0 => e.a = 0
                /\ st.a = 1 => e.a = 1
                /\ st.a = 128 => e.a = 255
                /\ st.a = 255 => e.a = 253

\* a decoded palette whose stored alphas take every value of a byte
C5_Witness ==
    /\ LUTOk
    /\ \A a \in 0 .. 255 : \E k \in 0 .. 255 : StoredAt(k).a = a

\* C6: the swizzle applied twice to a 256-entry palette gives the palette
\* back, entry for entry.
C6_SwizzleInvolution ==
    pc = "swizzle2" => colors = inp.palette

\* a palette swizzled twice that one swizzle does change
C6_Witness ==
    /\ pc = "swizzle2"
    /\ Swizzle(colors) # colors
    /\ inp.mul = 1

\* C7: the final palette entry at 32i + j is the remapped entry read at
\* 32i + j for j in 0..7 and 24..31, at 32i + j + 8 for j in 8..15 and at
\* 32i + j - 8 for j in 16..23; no entry leaves its block and the palette is
\* a permutation of the 256 entries read.
C7_SwizzleLayout ==
    LUTOk =>
        /\ Len(colors) = 256
        /\ \A i \in 0 .. 7 : \A j \in 0 .. 31 :
              LET src == IF j \in 8 .. 15 THEN 32 * i + j + 8
                         ELSE IF j \in 16 .. 23 THEN 32 * i + j - 8
                         ELSE 32 * i + j
              IN  /\ colors[32 * i + j + 1] = RemappedAt(src)
                  /\ src \div 32 = i
        /\ \A d \in 0 .. 255 :
              /\ SourceIndex(d) \in 0 .. 255
              /\ SourceIndex(SourceIndex(d)) = d

\* a decoded palette of pairwise distinct entries, read at the offset sought
C7_Witness ==
    /\ LUTOk
    /\ seekable
    /\ \A k, l \in 0 .. 255 : k # l => StoredAt(k) # StoredAt(l)
    /\ colors[9].r = 16 /\ colors[17].r = 8

\* C8: in a file decoded with success every index y * width + x the
\* compositing loop uses lies within the plane, every pixel put is the palette
\* entry of its plane byte, and the 2x2 example yields the four pixels of the
\* specification.
C8_CompositeLooksUpPalette ==
    /\ (pc = "composite" /\ seekErrs = 0) => x + y * header["width"] < Len(image)
    /\ DecodeOk =>
          \A n \in 1 .. Len(rgba) :
              /\ image[n] + 1 \in 1 .. Len(colors)
              /\ rgba[n] = colors[image[n] + 1]
    /\ (saved /\ seekErrs = 0 /\ inp.content = 0 /\ inp.w = 2 /\ inp.h = 2) =>
          rgba = << [r |-> 10, g |-> 20, b |-> 30, a |-> 0],
                    [r |-> 40, g |-> 50, b |-> 60, a |-> 255],
                    [r |-> 70, g |-> 80, b |-> 90, a |-> 127],
                    [r |-> 100, g |-> 110, b |-> 120, a |-> 253] >>

\* C9: once a seek has failed, SagasFile::from_reader reads neither the
\* palette nor the pixel plane and ends in failure.
C9_SeekFailureAborts ==
    seekErrs > 0 =>
        /\ colors = <<>>
        /\ image = <<>>
        /\ result \in {"running", "Err"}
        /\ ~saved

\* a stage has failed: a read or a seek returned Err, or the run was aborted
StageFailed == result \in {"Err", "panic"} \/ seekErrs > 0

\* an image of at least one pixel was handed to save
ImageWritten == saved /\ Len(rgba) > 0

\* C10: the stages run in the order header, palette, pixel plane, compositor;
\* an image is written only after the three decoding stages succeeded; once a
\* stage has failed no later stage has run and no image, whole or partial, is
\* emitted.
C10_StagesInOrderNoImageOnFailure ==
    /\ LUTOk => HeaderOk
    /\ image # <<>> => LUTOk
    /\ rgba # <<>> => (HeaderOk /\ LUTOk)
    /\ result \in {"Err", "panic"} => (pc = "done" /\ ~saved)
    /\ ImageWritten => (/\ HeaderOk
                        /\ LUTOk
                        /\ ~StageFailed
                        /\ Len(rgba) = header["width"] * header["height"])

====
